---- MODULE Spec2Model ----
(***************************************************************************)
(* Deployment orchestration and status propagation of My-vercel:           *)
(*   upload-service  (POST /deploy)      creates the job row, enqueues     *)
(*   deploy-service  (startPolling)      the SQS consumer                  *)
(*   ApiGatewaySockerHandler (handler)   $connect/$disconnect/register     *)
(*   databaseStreamHandler   (handler)   DynamoDB-stream change notifier   *)
(* Every await of the source is a step boundary of its process.            *)
(***************************************************************************)
EXTENDS Integers, Sequences, FiniteSets, TLC

\* ------------------------------------------------------------------ bounds
Jobs     == {"j1", "j2"}        \* deployment ids generated by /deploy
Workers  == {"w1", "w2"}        \* deploy-service instances
Conns    == {"c1", "c2"}        \* API Gateway connection ids
BadMsg   == "bad"               \* a queue message not produced by /deploy
Msgs     == Jobs \cup {BadMsg}

MaxFaults    == 1               \* infrastructure calls that may throw
MaxRegisters == 2               \* register requests sent by clients
MaxDupFeed   == 1               \* duplicate change-feed deliveries

\* ------------------------------------------------------- program constants
MaxReceiveCount == 3            \* redrive policy of the main queue

NoErr  == "none"                \* attribute "error" absent
NoConn == "none"                \* attribute "connectionId" absent
NoId   == ""                    \* body?.id is undefined / falsy
NoMsg  == "none"                \* the worker is between iterations

\* errors the Build Driver or the clone can raise (Error.message)
BuildErrors  == {"npm install failed", ""}
SubmitErrors == {"clone failed", ""}

VARIABLES
  store,      \* DynamoDB table: job id -> item
  feed,       \* DynamoDB stream: change records not yet handled
  subpc,      \* POST /deploy per job: position in the handler
  suberr,     \* POST /deploy per job: the caught error's message
  queue,      \* SQS main queue: message -> [body, st, rc]
  wpc,        \* deploy-service per worker: position in startPolling
  wmsg,       \* deploy-service per worker: message of the iteration
  werr,       \* deploy-service per worker: caught build error message
  open,       \* API Gateway: connections currently open
  pushes,     \* every postToConnection attempt, in order
  reply,      \* the last reply of the register route
  regs,       \* register requests clients may still send
  faults,     \* infrastructure calls that may still throw
  dups        \* duplicate feed deliveries that may still happen

vars == <<store, feed, subpc, suberr, queue, wpc, wmsg, werr, open, pushes,
          reply, regs, faults, dups>>

\* ------------------------------------------------------------ Job Store
Rank(s) == CASE s = "PENDING" -> 0
             [] s = "IN_PROGRESS" -> 1
             [] OTHER -> 2
Terminal == {"DEPLOYED", "ERROR"}

\* (error as Error).message || fallback
OrElse(msg, fallback) == IF msg # "" THEN msg ELSE fallback

\* PutCommand: replaces the whole item
PutItem(s, id, item) ==
  [k \in DOMAIN s \cup {id} |-> IF k = id THEN item ELSE s[k]]

\* Item of the first PutCommand of /deploy
PendingItem ==
  [status |-> "PENDING", error |-> NoErr, connectionId |-> NoConn,
   createdAt |-> TRUE, updatedAt |-> FALSE]

\* Item of the PutCommand in the catch block of /deploy
ErrorItem(msg) ==
  [status |-> "ERROR", error |-> OrElse(msg, "Upload service failure"),
   connectionId |-> NoConn, createdAt |-> FALSE, updatedAt |-> TRUE]

\* updateStatus without the "#error = :e" clause
updateStatusDropsError(s, id, status, errorMsg) ==
  LET old == IF id \in DOMAIN s
             THEN s[id]
             ELSE [status |-> "", error |-> NoErr, connectionId |-> NoConn,
                   createdAt |-> FALSE, updatedAt |-> FALSE]
  IN PutItem(s, id, [old EXCEPT !.status = status, !.updatedAt = TRUE])

\* updateStatus as a PutCommand of {id, status, updatedAt [, error]}: the
\* other attributes of the item are lost
updateStatusReplacesItem(s, id, status, errorMsg) ==
  PutItem(s, id, [status |-> status,
                  error |-> IF errorMsg # "" THEN errorMsg ELSE NoErr,
                  connectionId |-> NoConn, createdAt |-> FALSE,
                  updatedAt |-> TRUE])

\* updateStatus: UpdateCommand "SET #status = :s, updatedAt = :t [, #error = :e]"
\* without a condition: an upsert that leaves the other attributes alone
updateStatus(s, id, status, errorMsg) ==
  LET old == IF id \in DOMAIN s
             THEN s[id]
             ELSE [status |-> "", error |-> NoErr, connectionId |-> NoConn,
                   createdAt |-> FALSE, updatedAt |-> FALSE]
      new == [old EXCEPT !.status = status,
                         !.updatedAt = TRUE,
                         !.error = IF errorMsg # "" THEN errorMsg ELSE @]
  IN PutItem(s, id, new)

\* the register write without its ConditionExpression: an upsert
registerUpdateUnconditional(s, cid, id) ==
  [ok |-> TRUE,
   store |-> PutItem(s, id,
               IF id \in DOMAIN s
               THEN [s[id] EXCEPT !.connectionId = cid]
               ELSE [status |-> "", error |-> NoErr, connectionId |-> cid,
                     createdAt |-> FALSE, updatedAt |-> FALSE])]

\* the register write as a PutCommand of {id, connectionId}: the item is
\* replaced
registerUpdateReplacesItem(s, cid, id) ==
  IF id \in DOMAIN s
  THEN [ok |-> TRUE,
        store |-> PutItem(s, id, [status |-> "", error |-> NoErr,
                                  connectionId |-> cid, createdAt |-> FALSE,
                                  updatedAt |-> FALSE])]
  ELSE [ok |-> FALSE, store |-> s]

\* register: UpdateCommand "SET connectionId = :cid" with
\* ConditionExpression attribute_exists(id); ok = FALSE is the
\* ConditionalCheckFailedException
registerUpdate(s, cid, id) ==
  IF id \in DOMAIN s
  THEN [ok |-> TRUE, store |-> [s EXCEPT ![id].connectionId = cid]]
  ELSE [ok |-> FALSE, store |-> s]

\* The change record DynamoDB Streams writes for a mutation of item id
StreamRecord(old, new, id) ==
  [eventName |-> IF id \in DOMAIN old THEN "MODIFY" ELSE "INSERT",
   id |-> id, status |-> new[id].status, error |-> new[id].error,
   connectionId |-> new[id].connectionId]

\* a stream that records only the writes carrying a fresh timestamp (the
\* status writes), not the write of connectionId
EmitOnlyStatusWrites(old, new, id, fresh) ==
  IF fresh THEN Append(feed, StreamRecord(old, new, id)) ELSE feed

\* A write that changes no attribute produces no stream record; updateStatus
\* and the Put of /deploy always carry a fresh timestamp
Emit(old, new, id, fresh) ==
  IF fresh \/ id \notin DOMAIN old \/ old[id] # new[id]
  THEN Append(feed, StreamRecord(old, new, id))
  ELSE feed

\* an infrastructure call may throw while the fault budget lasts
MayFail(ok) == ok \/ faults > 0
Fault(ok)   == faults' = IF ok THEN faults ELSE faults - 1


\* --------------------------------------------------------------- queue
\* a parse that falls back to a default id instead of throwing
ParsedIdWithDefault(body) ==
  IF body.kind = "json" /\ body.id # NoId THEN body.id ELSE "j1"

\* JSON.parse(message.Body) followed by the checks of lines 115-124:
\* the id of the body, or NoId when the inner try throws before STEP 1
ParsedId(body) ==
  IF body.kind = "json" THEN body.id ELSE NoId

\* a body the consumer cannot use: absent, not JSON, or JSON without id
Malformed(body) == body.kind # "json" \/ body.id = NoId

BadBodies == {[kind |-> "none", id |-> NoId],
              [kind |-> "text", id |-> NoId],
              [kind |-> "json", id |-> NoId]}

\* sendSqsMessage({id, repoUrl})
JobBody(j) == [kind |-> "json", id |-> j]

InQueue(m) == queue[m].st \in {"visible", "inflight"}

\* DeleteMessageCommand
DeleteMessage(q, m) ==
  IF q[m].st \in {"visible", "inflight"}
  THEN [q EXCEPT ![m].st = "deleted"]
  ELSE q

\* ----------------------------------------------------------------- Init
Start(nregs, nfaults, ndups) ==
  /\ store = [k \in {} |-> PendingItem]
  /\ feed = <<>>
  /\ subpc = [j \in Jobs |-> "idle"]
  /\ suberr = [j \in Jobs |-> ""]
  /\ queue = [m \in Msgs |->
                [body |-> [kind |-> "none", id |-> NoId],
                 st |-> "absent", rc |-> 0, handle |-> TRUE]]
  /\ wpc = [w \in Workers |-> "poll"]
  /\ wmsg = [w \in Workers |-> NoMsg]
  /\ werr = [w \in Workers |-> ""]
  /\ open = {}
  /\ pushes = <<>>
  /\ reply = [id |-> NoId, conn |-> NoConn, statusCode |-> 0]
  /\ regs = nregs
  /\ faults = nfaults
  /\ dups = ndups

Init == Start(MaxRegisters, MaxFaults, MaxDupFeed)

\* ------------------------------------------- upload-service: POST /deploy
\* first PutCommand with its error swallowed: the handler goes on to the
\* clone whether or not the item was created
SubmitPutSwallowsError(j, ok) ==
  /\ subpc[j] = "idle"
  /\ MayFail(ok) /\ Fault(ok)
  /\ IF ok
     THEN /\ store' = PutItem(store, j, PendingItem)
          /\ feed' = Emit(store, store', j, TRUE)
     ELSE UNCHANGED <<store, feed>>
  /\ subpc' = [subpc EXCEPT ![j] = "clone"]
  /\ UNCHANGED <<suberr, queue, wpc, wmsg, werr, open, pushes, reply, regs,
                 dups>>

\* first PutCommand (status PENDING); a throw enters the catch block with
\* deploymentId already set
SubmitPut(j, ok) ==
  /\ subpc[j] = "idle"
  /\ MayFail(ok) /\ Fault(ok)
  /\ IF ok
     THEN /\ store' = PutItem(store, j, PendingItem)
          /\ feed' = Emit(store, store', j, TRUE)
          /\ subpc' = [subpc EXCEPT ![j] = "clone"]
          /\ UNCHANGED suberr
     ELSE /\ subpc' = [subpc EXCEPT ![j] = "catch"]
          /\ suberr' = [suberr EXCEPT ![j] = "store unavailable"]
          /\ UNCHANGED <<store, feed>>
  /\ UNCHANGED <<queue, wpc, wmsg, werr, open, pushes, reply, regs, dups>>

\* simpleGit().clone and the uploads (Promise.allSettled never rejects)
SubmitCloneOk(j) ==
  /\ subpc[j] = "clone"
  /\ subpc' = [subpc EXCEPT ![j] = "enqueue"]
  /\ UNCHANGED <<store, feed, suberr, queue, wpc, wmsg, werr, open, pushes,
                 reply, regs, faults, dups>>

SubmitCloneFail(j, e) ==
  /\ subpc[j] = "clone"
  /\ subpc' = [subpc EXCEPT ![j] = "catch"]
  /\ suberr' = [suberr EXCEPT ![j] = e]
  /\ UNCHANGED <<store, feed, queue, wpc, wmsg, werr, open, pushes,
                 reply, regs, faults, dups>>

\* sendSqsMessage, then res.json({id})
SubmitEnqueue(j, ok) ==
  /\ subpc[j] = "enqueue"
  /\ MayFail(ok) /\ Fault(ok)
  /\ IF ok
     THEN /\ queue' = [queue EXCEPT ![j] =
                         [body |-> JobBody(j), st |-> "visible", rc |-> 0,
                  handle |-> TRUE]]
          /\ subpc' = [subpc EXCEPT ![j] = "queued"]
          /\ UNCHANGED suberr
     ELSE /\ subpc' = [subpc EXCEPT ![j] = "catch"]
          /\ suberr' = [suberr EXCEPT ![j] = "queue unavailable"]
          /\ UNCHANGED queue
  /\ UNCHANGED <<store, feed, wpc, wmsg, werr, open, pushes, reply, regs,
                 dups>>

\* a catch block that removes the record of the failed submission
SubmitCatchRemovesItem(j, ok) ==
  /\ subpc[j] = "catch"
  /\ MayFail(ok) /\ Fault(ok)
  /\ IF ok
     THEN /\ store' = [k \in DOMAIN store \ {j} |-> store[k]]
          /\ UNCHANGED feed
     ELSE UNCHANGED <<store, feed>>
  /\ subpc' = [subpc EXCEPT ![j] = "failed"]
  /\ UNCHANGED <<suberr, queue, wpc, wmsg, werr, open, pushes, reply, regs,
                 dups>>

\* catch block: PutCommand of the ERROR item (its own failure is logged),
\* then res.status(500)
SubmitCatch(j, ok) ==
  /\ subpc[j] = "catch"
  /\ MayFail(ok) /\ Fault(ok)
  /\ IF ok
     THEN /\ store' = PutItem(store, j, ErrorItem(suberr[j]))
          /\ feed' = Emit(store, store', j, TRUE)
     ELSE UNCHANGED <<store, feed>>
  /\ subpc' = [subpc EXCEPT ![j] = "failed"]
  /\ UNCHANGED <<suberr, queue, wpc, wmsg, werr, open, pushes, reply, regs,
                 dups>>


\* ------------------------------------------ deploy-service: startPolling
\* body.id of the message the worker is processing
JobOf(w) == ParsedId(queue[wmsg[w]].body)

\* ReceiveMessageCommand returns message m; lines 101-128 run without an
\* a receive without the check of message.ReceiptHandle
ReceiveIgnoresHandle(w, m, handle) ==
  /\ wpc[w] = "poll"
  /\ queue[m].st = "visible"
  /\ queue[m].rc < MaxReceiveCount
  /\ queue' = [queue EXCEPT ![m].st = "inflight", ![m].rc = @ + 1,
                             ![m].handle = handle]
  /\ IF ParsedId(queue[m].body) # NoId
     THEN /\ wpc' = [wpc EXCEPT ![w] = "writeInProgress"]
          /\ wmsg' = [wmsg EXCEPT ![w] = m]
     ELSE UNCHANGED <<wpc, wmsg>>
  /\ UNCHANGED <<store, feed, subpc, suberr, werr, open, pushes, reply,
                 regs, faults, dups>>

\* a worker that issues its next receive while its build is running
ReceiveWhileBuilding(w, m, handle) ==
  /\ wpc[w] \in {"poll", "build"}
  /\ queue[m].st = "visible"
  /\ queue[m].rc < MaxReceiveCount
  /\ queue' = [queue EXCEPT ![m].st = "inflight", ![m].rc = @ + 1,
                             ![m].handle = handle]
  /\ IF handle /\ ParsedId(queue[m].body) # NoId
     THEN /\ wpc' = [wpc EXCEPT ![w] = "writeInProgress"]
          /\ wmsg' = [wmsg EXCEPT ![w] = m]
     ELSE UNCHANGED <<wpc, wmsg>>
  /\ UNCHANGED <<store, feed, subpc, suberr, werr, open, pushes, reply,
                 regs, faults, dups>>

\* a receive that removes the message on delivery (at-most-once)
ReceiveAndDelete(w, m, handle) ==
  /\ wpc[w] = "poll"
  /\ queue[m].st = "visible"
  /\ queue[m].rc < MaxReceiveCount
  /\ queue' = [queue EXCEPT ![m].st = "deleted", ![m].rc = @ + 1,
                             ![m].handle = handle]
  /\ IF handle /\ ParsedId(queue[m].body) # NoId
     THEN /\ wpc' = [wpc EXCEPT ![w] = "writeInProgress"]
          /\ wmsg' = [wmsg EXCEPT ![w] = m]
     ELSE UNCHANGED <<wpc, wmsg>>
  /\ UNCHANGED <<store, feed, subpc, suberr, werr, open, pushes, reply,
                 regs, faults, dups>>

\* await: a message without ReceiptHandle is skipped, a body that does not
\* parse to an id goes through the inner catch (body?.id is undefined, no
\* status write) and `continue`; otherwise STEP 1 is issued. The queue
\* entry keeps whether its delivery carries a ReceiptHandle
Receive(w, m, handle) ==
  /\ wpc[w] = "poll"
  /\ queue[m].st = "visible"
  /\ queue[m].rc < MaxReceiveCount
  /\ queue' = [queue EXCEPT ![m].st = "inflight", ![m].rc = @ + 1,
                             ![m].handle = handle]
  /\ IF handle /\ ParsedId(queue[m].body) # NoId
     THEN /\ wpc' = [wpc EXCEPT ![w] = "writeInProgress"]
          /\ wmsg' = [wmsg EXCEPT ![w] = m]
     ELSE UNCHANGED <<wpc, wmsg>>
  /\ UNCHANGED <<store, feed, subpc, suberr, werr, open, pushes, reply,
                 regs, faults, dups>>

\* sqsClient.send(receiveCommand) throws: outer catch, 5 s backoff
ReceiveFail(w) ==
  /\ wpc[w] = "poll"
  /\ MayFail(FALSE) /\ Fault(FALSE)
  /\ wpc' = [wpc EXCEPT ![w] = "backoff"]
  /\ UNCHANGED <<store, feed, subpc, suberr, queue, wmsg, werr, open, pushes,
                 reply, regs, dups>>

\* the setTimeout of the outer catch fires; the while loop resumes
Backoff(w) ==
  /\ wpc[w] = "backoff"
  /\ wpc' = [wpc EXCEPT ![w] = "poll"]
  /\ UNCHANGED <<store, feed, subpc, suberr, queue, wmsg, werr, open, pushes,
                 reply, regs, faults, dups>>

\* one call of updateStatus by worker w: the UpdateCommand is applied, or
\* it throws and updateStatus only logs (lines 77-79)
StatusWrite(w, status, errorMsg, ok) ==
  /\ MayFail(ok) /\ Fault(ok)
  /\ IF ok
     THEN /\ store' = updateStatus(store, JobOf(w), status, errorMsg)
          /\ feed' = Emit(store, store', JobOf(w), TRUE)
     ELSE UNCHANGED <<store, feed>>

\* STEP 1: await updateStatus(body.id, "IN_PROGRESS")
WriteInProgress(w, ok) ==
  /\ wpc[w] = "writeInProgress"
  /\ StatusWrite(w, "IN_PROGRESS", "", ok)
  /\ wpc' = [wpc EXCEPT ![w] = "build"]
  /\ UNCHANGED <<subpc, suberr, queue, wmsg, werr, open, pushes, reply,
                 regs, dups>>

\* STEP 2: await startBuildAndWait(body.id) resolves
BuildOk(w) ==
  /\ wpc[w] = "build"
  /\ wpc' = [wpc EXCEPT ![w] = "writeDeployed"]
  /\ UNCHANGED <<store, feed, subpc, suberr, queue, wmsg, werr, open, pushes,
                 reply, regs, faults, dups>>

\* STEP 2 rejects and the rejection is ignored: the iteration goes on to
\* STEP 3
BuildFailIgnored(w, e) ==
  /\ wpc[w] = "build"
  /\ wpc' = [wpc EXCEPT ![w] = "writeDeployed"]
  /\ werr' = [werr EXCEPT ![w] = e]
  /\ UNCHANGED <<store, feed, subpc, suberr, queue, wmsg, open, pushes,
                 reply, regs, faults, dups>>

\* STEP 2 rejects with an Error whose message is e
BuildFail(w, e) ==
  /\ wpc[w] = "build"
  /\ wpc' = [wpc EXCEPT ![w] = "writeError"]
  /\ werr' = [werr EXCEPT ![w] = e]
  /\ UNCHANGED <<store, feed, subpc, suberr, queue, wmsg, open, pushes,
                 reply, regs, faults, dups>>

\* STEP 3: await updateStatus(body.id, "DEPLOYED"); falls out of the try
WriteDeployed(w, ok) ==
  /\ wpc[w] = "writeDeployed"
  /\ StatusWrite(w, "DEPLOYED", "", ok)
  /\ wpc' = [wpc EXCEPT ![w] = "delete"]
  /\ UNCHANGED <<subpc, suberr, queue, wmsg, werr, open, pushes, reply,
                 regs, dups>>

\* STEP 4 without its `continue`: the iteration falls through to the delete
WriteErrorFallsThrough(w, ok) ==
  /\ wpc[w] = "writeError"
  /\ StatusWrite(w, "ERROR", OrElse(werr[w], "Unknown error"), ok)
  /\ wpc' = [wpc EXCEPT ![w] = "delete"]
  /\ werr' = [werr EXCEPT ![w] = ""]
  /\ UNCHANGED <<subpc, suberr, queue, wmsg, open, pushes, reply, regs, dups>>

\* STEP 4: await updateStatus(body.id, "ERROR", message || "Unknown error"),
\* then `continue`: the delete is skipped
WriteError(w, ok) ==
  /\ wpc[w] = "writeError"
  /\ StatusWrite(w, "ERROR", OrElse(werr[w], "Unknown error"), ok)
  /\ wpc' = [wpc EXCEPT ![w] = "poll"]
  /\ wmsg' = [wmsg EXCEPT ![w] = NoMsg]
  /\ werr' = [werr EXCEPT ![w] = ""]
  /\ UNCHANGED <<subpc, suberr, queue, open, pushes, reply, regs, dups>>

\* step 5 without the outer try/catch: a throw of the delete ends the loop
DeleteUncaught(w, ok) ==
  /\ wpc[w] = "delete"
  /\ MayFail(ok) /\ Fault(ok)
  /\ IF ok
     THEN /\ queue' = DeleteMessage(queue, wmsg[w])
          /\ wpc' = [wpc EXCEPT ![w] = "poll"]
     ELSE /\ wpc' = [wpc EXCEPT ![w] = "stopped"]
          /\ UNCHANGED queue
  /\ wmsg' = [wmsg EXCEPT ![w] = NoMsg]
  /\ UNCHANGED <<store, feed, subpc, suberr, werr, open, pushes, reply,
                 regs, dups>>

\* step 5: await sqsClient.send(deleteCommand); a throw reaches the outer
\* catch and the backoff
Delete(w, ok) ==
  /\ wpc[w] = "delete"
  /\ MayFail(ok) /\ Fault(ok)
  /\ IF ok
     THEN /\ queue' = DeleteMessage(queue, wmsg[w])
          /\ wpc' = [wpc EXCEPT ![w] = "poll"]
     ELSE /\ wpc' = [wpc EXCEPT ![w] = "backoff"]
          /\ UNCHANGED queue
  /\ wmsg' = [wmsg EXCEPT ![w] = NoMsg]
  /\ UNCHANGED <<store, feed, subpc, suberr, werr, open, pushes, reply,
                 regs, dups>>

\* ------------------------------------------------- the queue service
\* a message that is not a submission's (its body is malformed) arrives
InjectBad(body) ==
  /\ queue[BadMsg].st = "absent"
  /\ queue' = [queue EXCEPT ![BadMsg] =
                 [body |-> body, st |-> "visible", rc |-> 0,
                  handle |-> TRUE]]
  /\ UNCHANGED <<store, feed, subpc, suberr, wpc, wmsg, werr, open, pushes,
                 reply, regs, faults, dups>>

\* the visibility timeout of an undeleted message expires: its delivery,
\* and with it the receipt handle of that delivery, is over
VisibilityTimeout(m) ==
  /\ queue[m].st = "inflight"
  /\ queue' = [queue EXCEPT ![m].st = "visible", ![m].handle = TRUE]
  /\ UNCHANGED <<store, feed, subpc, suberr, wpc, wmsg, werr, open, pushes,
                 reply, regs, faults, dups>>

\* redrive policy: after maxReceiveCount receives the queue moves the
\* message to the dead-letter queue
Redrive(m) ==
  /\ queue[m].st = "visible"
  /\ queue[m].rc >= MaxReceiveCount
  /\ queue' = [queue EXCEPT ![m].st = "dlq"]
  /\ UNCHANGED <<store, feed, subpc, suberr, wpc, wmsg, werr, open, pushes,
                 reply, regs, faults, dups>>


\* --------------------------------------------- push transport (gateway)
\* postToConnection: one PostToConnectionCommand; every error is caught
\* (410 silently, any other is logged), so the caller never sees it.
\* outcome: "sent", "gone" (410: the connection is closed) or "error"
postToConnection(log, connectionId, data, sendOk) ==
  Append(log, [conn |-> connectionId, type |-> data.type, id |-> data.id,
               status |-> data.status, error |-> data.error,
               outcome |-> IF ~sendOk THEN "error"
                           ELSE IF connectionId \in open THEN "sent"
                           ELSE "gone"])

\* ------------------------------ ApiGatewaySockerHandler: handler(event)
\* case "$connect": return 200
Connect(c) ==
  /\ c \notin open
  /\ open' = open \cup {c}
  /\ UNCHANGED <<store, feed, subpc, suberr, queue, wpc, wmsg, werr, pushes,
                 reply, regs, faults, dups>>

\* a $disconnect that clears the connectionId of the jobs bound to c
DisconnectClearsBinding(c) ==
  /\ c \in open
  /\ open' = open \ {c}
  /\ store' = [k \in DOMAIN store |->
                IF store[k].connectionId = c
                THEN [store[k] EXCEPT !.connectionId = NoConn]
                ELSE store[k]]
  /\ UNCHANGED <<feed, subpc, suberr, queue, wpc, wmsg, werr, pushes,
                 reply, regs, faults, dups>>

\* case "$disconnect": only logs, return 200
Disconnect(c) ==
  /\ c \in open
  /\ open' = open \ {c}
  /\ UNCHANGED <<store, feed, subpc, suberr, queue, wpc, wmsg, werr, pushes,
                 reply, regs, faults, dups>>

SystemMessage(id) ==
  [type |-> "SYSTEM", id |-> id, status |-> "", error |-> ""]

\* case "register" with the confirmation sent before the write is awaited
RegisterConfirmsFirst(c, id, dbOk) ==
  /\ c \in open
  /\ regs > 0
  /\ regs' = regs - 1
  /\ MayFail(dbOk) /\ Fault(dbOk)
  /\ LET r == registerUpdate(store, c, id) IN
     IF id = NoId
     THEN /\ reply' = [id |-> id, conn |-> c, statusCode |-> 400]
          /\ UNCHANGED <<store, feed, pushes>>
     ELSE /\ pushes' = postToConnection(pushes, c, SystemMessage(id), TRUE)
          /\ IF dbOk /\ r.ok
             THEN /\ store' = r.store
                  /\ feed' = Emit(store, r.store, id, FALSE)
                  /\ reply' = [id |-> id, conn |-> c, statusCode |-> 200]
             ELSE /\ reply' = [id |-> id, conn |-> c, statusCode |-> 500]
                  /\ UNCHANGED <<store, feed>>
  /\ UNCHANGED <<subpc, suberr, queue, wpc, wmsg, werr, open, dups>>

\* case "register" with body {action: "register", id}; dbOk = FALSE is
\* ddbDocClient.send throwing for a reason other than the condition
Register(c, id, dbOk) ==
  /\ c \in open
  /\ regs > 0
  /\ regs' = regs - 1
  /\ MayFail(dbOk) /\ Fault(dbOk)
  /\ LET r == registerUpdate(store, c, id) IN
     IF id = NoId
     THEN /\ reply' = [id |-> id, conn |-> c, statusCode |-> 400]
          /\ UNCHANGED <<store, feed, pushes>>
     ELSE IF dbOk /\ r.ok
     THEN /\ store' = r.store
          /\ feed' = Emit(store, r.store, id, FALSE)
          /\ pushes' = postToConnection(pushes, c, SystemMessage(id), TRUE)
          /\ reply' = [id |-> id, conn |-> c, statusCode |-> 200]
     ELSE /\ reply' = [id |-> id, conn |-> c, statusCode |-> 500]
          /\ UNCHANGED <<store, feed, pushes>>
  /\ UNCHANGED <<subpc, suberr, queue, wpc, wmsg, werr, open, dups>>

\* --------------------------------- databaseStreamHandler: handler(event)
\* the payload without the error attribute of the NewImage
StatusUpdateWithoutError(rec) ==
  [type |-> "STATUS_UPDATE", id |-> rec.id, status |-> rec.status,
   error |-> "null"]

\* the payload built from the unmarshalled NewImage (error || null)
StatusUpdate(rec) ==
  [type |-> "STATUS_UPDATE", id |-> rec.id, status |-> rec.status,
   error |-> IF rec.error = NoErr THEN "null" ELSE rec.error]

\* the for loop body with the wrong event filter
HandleRecordOnInsert(log, rec, sendOk) ==
  IF rec.eventName = "INSERT" /\ rec.connectionId # NoConn
  THEN postToConnection(log, rec.connectionId, StatusUpdate(rec), sendOk)
  ELSE log

\* the for loop body without the check of deployment.connectionId
HandleRecordIgnoresBinding(log, rec, sendOk) ==
  IF rec.eventName = "MODIFY"
  THEN postToConnection(log, rec.connectionId, StatusUpdate(rec), sendOk)
  ELSE log

\* the body of the for loop for one stream record
HandleRecord(log, rec, sendOk) ==
  IF rec.eventName = "MODIFY" /\ rec.connectionId # NoConn
  THEN postToConnection(log, rec.connectionId, StatusUpdate(rec), sendOk)
  ELSE log

\* a stream that delivers its newest record first
NotifyNewestFirst(dup, sendOk) ==
  /\ feed # <<>>
  /\ dup => dups > 0
  /\ dups' = IF dup THEN dups - 1 ELSE dups
  /\ MayFail(sendOk) /\ Fault(sendOk)
  /\ ~sendOk => (feed[Len(feed)].eventName = "MODIFY"
                 /\ feed[Len(feed)].connectionId # NoConn)
  /\ pushes' = HandleRecord(pushes, feed[Len(feed)], sendOk)
  /\ feed' = IF dup THEN feed ELSE SubSeq(feed, 1, Len(feed) - 1)
  /\ UNCHANGED <<store, subpc, suberr, queue, wpc, wmsg, werr, open, reply,
                 regs>>

\* a notifier that removes the binding of a job when its push fails
NotifyClearsFailedBinding(dup, sendOk) ==
  /\ feed # <<>>
  /\ dup => dups > 0
  /\ dups' = IF dup THEN dups - 1 ELSE dups
  /\ MayFail(sendOk) /\ Fault(sendOk)
  /\ ~sendOk => (Head(feed).eventName = "MODIFY"
                 /\ Head(feed).connectionId # NoConn)
  /\ pushes' = HandleRecord(pushes, Head(feed), sendOk)
  /\ feed' = IF dup THEN feed ELSE Tail(feed)
  /\ store' = IF /\ pushes' # pushes
                 /\ pushes'[Len(pushes')].outcome # "sent"
                 /\ Head(feed).id \in DOMAIN store
              THEN [store EXCEPT ![Head(feed).id].connectionId = NoConn]
              ELSE store
  /\ UNCHANGED <<subpc, suberr, queue, wpc, wmsg, werr, open, reply, regs>>

\* the stream delivers its oldest record to the handler; dup = TRUE is a
\* delivery after which the stream delivers the same record again
Notify(dup, sendOk) ==
  /\ feed # <<>>
  /\ dup => dups > 0
  /\ dups' = IF dup THEN dups - 1 ELSE dups
  /\ MayFail(sendOk) /\ Fault(sendOk)
  /\ ~sendOk => (Head(feed).eventName = "MODIFY"
                 /\ Head(feed).connectionId # NoConn)
  /\ pushes' = HandleRecord(pushes, Head(feed), sendOk)
  /\ feed' = IF dup THEN feed ELSE Tail(feed)
  /\ UNCHANGED <<store, subpc, suberr, queue, wpc, wmsg, werr, open, reply,
                 regs>>

\* ------------------------------------------------------------- behaviour
\* POST /deploy requests for the jobs JS
Submission(JS) ==
  \/ \E j \in JS, ok \in BOOLEAN : SubmitPut(j, ok)
  \/ \E j \in JS : SubmitCloneOk(j)
  \/ \E j \in JS, e \in SubmitErrors : SubmitCloneFail(j, e)
  \/ \E j \in JS, ok \in BOOLEAN : SubmitEnqueue(j, ok)
  \/ \E j \in JS, ok \in BOOLEAN : SubmitCatch(j, ok)

\* the deploy-service instances WS
Consumer(WS) ==
  \/ \E w \in WS, m \in Msgs, h \in BOOLEAN : Receive(w, m, h)
  \/ \E w \in WS : ReceiveFail(w)
  \/ \E w \in WS : Backoff(w)
  \/ \E w \in WS, ok \in BOOLEAN : WriteInProgress(w, ok)
  \/ \E w \in WS : BuildOk(w)
  \/ \E w \in WS, e \in BuildErrors : BuildFail(w, e)
  \/ \E w \in WS, ok \in BOOLEAN : WriteDeployed(w, ok)
  \/ \E w \in WS, ok \in BOOLEAN : WriteError(w, ok)
  \/ \E w \in WS, ok \in BOOLEAN : Delete(w, ok)

\* the queue service
QueueService ==
  \/ \E m \in Msgs : VisibilityTimeout(m)
  \/ \E m \in Msgs : Redrive(m)

\* clients on the connections CS registering for the jobs JS
Gateway(CS, JS) ==
  \/ \E c \in CS : Connect(c)
  \/ \E c \in CS : Disconnect(c)
  \/ \E c \in CS, id \in JS \cup {NoId}, ok \in BOOLEAN : Register(c, id, ok)

Notifier ==
  \E dup \in BOOLEAN, ok \in BOOLEAN : Notify(dup, ok)

\* one submission, both workers, malformed messages, store and queue faults
Next ==
  \/ Submission({"j1"})
  \/ Consumer(Workers)
  \/ QueueService
  \/ \E b \in BadBodies : InjectBad(b)
  \/ Notifier

Spec == Start(0, MaxFaults, 0) /\ [][Next]_vars


\* client connections registering for a job that is being submitted and
\* for one that never is
NextRegistry ==
  \/ Submission({"j1"})
  \/ Gateway(Conns, Jobs)
  \/ Notifier

SpecRegistry == Init /\ [][NextRegistry]_vars

\* a client that registers for the job before its message is received and
\* keeps its connection open
RegisterEarly(c, j) ==
  /\ queue[j].st = "visible" /\ queue[j].rc = 0
  /\ Register(c, j, TRUE)

\* one submission followed by its client, one worker, the notifier
NextDeploy ==
  \/ Submission({"j1"})
  \/ Consumer({"w1"})
  \/ QueueService
  \/ \E c \in Conns : Connect(c)
  \/ \E c \in Conns : RegisterEarly(c, "j1")
  \/ Notifier

SpecDeploy == Start(MaxRegisters, MaxFaults, 0) /\ [][NextDeploy]_vars


\* ================================================================ claims
\* C1: for every job the stored status only moves forward along
\* PENDING, IN_PROGRESS, {DEPLOYED | ERROR}: a write that changes the
\* status raises its rank, so no status is revisited.
C1_StatusMovesForward ==
  [][\A j \in Jobs :
       (j \in DOMAIN store /\ j \in DOMAIN store'
        /\ store'[j].status # store[j].status)
       => Rank(store'[j].status) > Rank(store[j].status)]_vars

\* C2: DEPLOYED and ERROR are terminal: once the stored status of a job is
\* terminal no step changes it.
C2_TerminalIsFinal ==
  [][\A j \in Jobs :
       (j \in DOMAIN store /\ store[j].status \in Terminal)
       => store'[j].status = store[j].status]_vars

\* C3: in every reachable state each job record has an error exactly when
\* its status is ERROR.
C3_ErrorIffStatusError ==
  \A j \in DOMAIN store :
    (store[j].error # NoErr) <=> (store[j].status = "ERROR")

\* C4: a queue message is deleted only in a state in which the Job Store
\* holds status DEPLOYED for the message's job.
C4_DeleteOnlyAfterDeployed ==
  [][\A m \in Jobs :
       (queue[m].st # "deleted" /\ queue'[m].st = "deleted")
       => (m \in DOMAIN store /\ store[m].status = "DEPLOYED")]_vars

\* C6: a message whose body is missing, unparseable or without id is never
\* deleted and never becomes a worker's iteration (no build, no status
\* write for it); receiving it changes neither the Job Store nor any
\* worker's position, and leaves it in flight for redelivery.
C6_MalformedLeftForRedelivery ==
  [][\A m \in Msgs :
       /\ (queue'[m].st # "absent" /\ Malformed(queue'[m].body))
          => /\ queue'[m].st # "deleted"
             /\ \A w \in Workers : wmsg'[w] # m
       /\ (Malformed(queue[m].body) /\ queue'[m].rc > queue[m].rc)
          => /\ store' = store /\ feed' = feed
             /\ wpc' = wpc /\ wmsg' = wmsg
             /\ queue'[m].st = "inflight"]_vars

\* C6 witness: a malformed message was received twice and is in the queue
C6_Witness ==
  /\ Malformed(queue[BadMsg].body)
  /\ queue[BadMsg].rc = 2
  /\ queue[BadMsg].st = "visible"
  /\ \A w \in Workers : wpc[w] = "poll"

\* the step in which worker w completes the ERROR write of its iteration
\* and the store applied the write
ErrorWritten(w) ==
  /\ wpc[w] = "writeError" /\ wpc'[w] # "writeError"
  /\ faults' = faults

C10_DuplicateDeliveryInOrder ==
  [][\A j \in Jobs :
       ((\A w \in Workers : wmsg[w] = j)
        /\ j \in DOMAIN store /\ j \in DOMAIN store')
       => /\ Rank(store'[j].status) >= Rank(store[j].status)
          /\ store[j].status \in Terminal
               => store'[j].status = store[j].status]_vars


\* C5: a register for a job id without a record is answered with a failure
\* and leaves the Job Store (and so its change feed) unchanged.
C5_RegisterUnknownJobFails ==
  [][(regs' # regs /\ reply'.id # NoId /\ reply'.id \notin DOMAIN store)
     => /\ store' = store /\ feed' = feed
        /\ reply'.statusCode = 500]_vars

\* C5 witness: a register for j1 lost the race with the submission (it
\* failed although no store call threw) and the record created afterwards
\* has no connection
C5_Witness ==
  /\ reply.id = "j1" /\ reply.statusCode = 500
  /\ faults = MaxFaults
  /\ "j1" \in DOMAIN store
  /\ store["j1"].connectionId = NoConn

\* the STATUS_UPDATE pushes for job j that connection c received after the
\* job left PENDING
StatusPushes(c, j) ==
  SelectSeq(pushes, LAMBDA p : /\ p.conn = c /\ p.type = "STATUS_UPDATE"
                                /\ p.id = j /\ p.status # "PENDING")

\* the scenario of C8: no infrastructure call failed, a connection was
\* registered for j before its message was received, the message was
\* delivered once and deleted, and the notifier has handled every record
Deployed(j) ==
  /\ faults = MaxFaults
  /\ j \in DOMAIN store /\ store[j].connectionId # NoConn
  /\ queue[j].rc = 1 /\ queue[j].st = "deleted"
  /\ feed = <<>>

\* C8: in that scenario the stored status is DEPLOYED and the registered
\* connection received exactly one IN_PROGRESS push followed by exactly one
\* DEPLOYED push.
C8_DeployScenario ==
  \A j \in Jobs :
    Deployed(j)
    => /\ store[j].status = "DEPLOYED"
       /\ LET ps == StatusPushes(store[j].connectionId, j) IN
          /\ Len(ps) = 2
          /\ ps[1].status = "IN_PROGRESS" /\ ps[1].outcome = "sent"
          /\ ps[2].status = "DEPLOYED" /\ ps[2].outcome = "sent"

\* C8 witness: the scenario has run to its end
C8_Witness == Deployed("j1")

\* C9: a status mutation of a job with a registered connection writes a
\* change record carrying that connection and the new status, and the
\* notifier answers every such record with one push of that status to that
\* connection (a duplicate delivery with one more).
C9_EveryMutationPushed ==
  [][/\ \A j \in Jobs :
          (j \in DOMAIN store /\ store[j].connectionId # NoConn
           /\ store'[j].status # store[j].status)
          => /\ Len(feed') = Len(feed) + 1
             /\ feed'[Len(feed')].eventName = "MODIFY"
             /\ feed'[Len(feed')].id = j
             /\ feed'[Len(feed')].status = store'[j].status
             /\ feed'[Len(feed')].connectionId = store[j].connectionId
     /\ (/\ feed # <<>>
         /\ feed' = Tail(feed) \/ dups' # dups
         /\ Head(feed).eventName = "MODIFY"
         /\ Head(feed).connectionId # NoConn)
        => /\ Len(pushes') = Len(pushes) + 1
           /\ pushes'[Len(pushes')].conn = Head(feed).connectionId
           /\ pushes'[Len(pushes')].id = Head(feed).id
           /\ pushes'[Len(pushes')].status = Head(feed).status]_vars


\* ------------------------------------------------- C11: poison pill
\* the job whose build fails on every attempt
PoisonJob == "j1"
OtherJob  == "j2"

\* the Build Driver rejects every build of the poison job and resolves
\* every other build
PoisonBuild(w) ==
  \/ wmsg[w] = PoisonJob /\ \E e \in BuildErrors : BuildFail(w, e)
  \/ wmsg[w] # PoisonJob /\ BuildOk(w)

\* two submissions, one of them a poison pill, one worker, no call throws
NextPoison ==
  \/ \E j \in Jobs : SubmitPut(j, TRUE)
  \/ \E j \in Jobs : SubmitCloneOk(j)
  \/ \E j \in Jobs : SubmitEnqueue(j, TRUE)
  \/ \E m \in Jobs : Receive("w1", m, TRUE)
  \/ WriteInProgress("w1", TRUE)
  \/ PoisonBuild("w1")
  \/ WriteDeployed("w1", TRUE)
  \/ WriteError("w1", TRUE)
  \/ Delete("w1", TRUE)
  \/ \E m \in Jobs : VisibilityTimeout(m)
  \/ \E m \in Jobs : Redrive(m)
  \/ Notify(FALSE, TRUE)

\* the worker's awaits return, the queue delivers a visible message to a
\* polling worker, visibility timeouts expire and the redrive policy runs
FairPoison ==
  /\ WF_vars(WriteInProgress("w1", TRUE))
  /\ WF_vars(PoisonBuild("w1"))
  /\ WF_vars(WriteDeployed("w1", TRUE))
  /\ WF_vars(WriteError("w1", TRUE))
  /\ WF_vars(Delete("w1", TRUE))
  /\ \A m \in Jobs : WF_vars(Receive("w1", m, TRUE))
  /\ \A m \in Jobs : WF_vars(VisibilityTimeout(m))
  /\ \A m \in Jobs : WF_vars(Redrive(m))

SpecPoison == Start(0, 0, 0) /\ [][NextPoison]_vars /\ FairPoison

\* C11: the poison message is never deleted, is received at most
\* MaxReceiveCount times and is moved to the dead-letter queue by a step of
\* the queue in which no worker moves; once queued it ends in the
\* dead-letter queue, and the other job's message, once queued, is
\* eventually received, built and deleted.
C11_PoisonPillIsolated ==
  /\ [][/\ queue'[PoisonJob].st # "deleted"
        /\ queue'[PoisonJob].rc <= MaxReceiveCount
        /\ (queue[PoisonJob].st # "dlq" /\ queue'[PoisonJob].st = "dlq")
           => (wpc' = wpc /\ wmsg' = wmsg /\ store' = store)]_vars
  /\ (queue[PoisonJob].st = "visible") ~> (queue[PoisonJob].st = "dlq")
  /\ (queue[OtherJob].st = "visible") ~> (queue[OtherJob].st = "deleted")

\* C11 witness: the poison pill is dead-lettered after MaxReceiveCount
\* failed builds and the other job is deployed and its message deleted
C11_Witness ==
  /\ queue[PoisonJob].st = "dlq" /\ queue[PoisonJob].rc = MaxReceiveCount
  /\ store[PoisonJob].status = "ERROR"
  /\ queue[OtherJob].st = "deleted"
  /\ store[OtherJob].status = "DEPLOYED"


\* ------------------------------------------------- C12: the loop goes on
\* the positions of the while (true) loop of startPolling
LoopPositions ==
  {"poll", "writeInProgress", "build", "writeDeployed", "writeError",
   "delete", "backoff"}

\* what worker w can do next by itself when it is not waiting in the
\* receive call
WorkerStep(w) ==
  \/ Backoff(w)
  \/ WriteInProgress(w, TRUE)
  \/ BuildOk(w)
  \/ WriteDeployed(w, TRUE)
  \/ WriteError(w, TRUE)
  \/ Delete(w, TRUE)

\* C12: a worker is always at a position of the loop and, unless it waits
\* in the receive call, has a next step; a throw of the receive or of the
\* delete call takes it to the backoff, the backoff takes it back to the
\* receive; a failed status write or a failed build does not stop it.
C12_LoopNeverStops ==
  /\ [](\A w \in Workers :
          /\ wpc[w] \in LoopPositions
          /\ wpc[w] # "poll" => ENABLED WorkerStep(w))
  /\ [][\A w \in Workers :
          /\ (wpc[w] \in {"poll", "delete"} /\ wpc'[w] # wpc[w]
              /\ faults' < faults) => wpc'[w] = "backoff"
          /\ (wpc[w] = "backoff" /\ wpc'[w] # wpc[w]) => wpc'[w] = "poll"
          /\ (wpc[w] = "writeError" /\ wpc'[w] # wpc[w]) => wpc'[w] = "poll"
          /\ (wpc[w] = "writeInProgress" /\ wpc'[w] # wpc[w])
             => wpc'[w] = "build"]_vars

\* C12 witness: the delete of a deployed job's message threw; the worker is
\* in the backoff and the message is still in the queue
C12_Witness ==
  /\ faults < MaxFaults
  /\ wpc["w1"] = "backoff"
  /\ \A w \in Workers : wmsg[w] = NoMsg
  /\ "j1" \in DOMAIN store /\ store["j1"].status = "DEPLOYED"
  /\ InQueue("j1") /\ queue["j1"].rc = 1


\* ------------------------------------------------- C13: killed workers
\* the deploy-service process is killed while it holds a message, between
\* two awaits of the iteration; nothing it has in memory reaches the store
\* or the queue
Crash(w) ==
  /\ wpc[w] \in {"writeInProgress", "build", "writeDeployed", "writeError",
                 "delete"}
  /\ wpc' = [wpc EXCEPT ![w] = "killed"]
  /\ UNCHANGED <<store, feed, subpc, suberr, queue, wmsg, werr, open, pushes,
                 reply, regs, faults, dups>>

\* the process is started again: startPolling() begins with a receive
Restart(w) ==
  /\ wpc[w] = "killed"
  /\ wpc' = [wpc EXCEPT ![w] = "poll"]
  /\ wmsg' = [wmsg EXCEPT ![w] = NoMsg]
  /\ werr' = [werr EXCEPT ![w] = ""]
  /\ UNCHANGED <<store, feed, subpc, suberr, queue, open, pushes, reply,
                 regs, faults, dups>>

CrashJob == "j1"
CrashWorker == "w1"

\* one submission, one worker that can be killed and restarted, store and
\* queue faults
NextCrash ==
  \/ SubmitPut(CrashJob, TRUE)
  \/ SubmitCloneOk(CrashJob)
  \/ SubmitEnqueue(CrashJob, TRUE)
  \/ Consumer({CrashWorker})
  \/ Crash(CrashWorker)
  \/ Restart(CrashWorker)
  \/ QueueService
  \/ Notify(FALSE, TRUE)

\* the process supervisor restarts a killed worker, a running worker takes
\* its next step, the queue makes an undeleted message visible again and
\* applies its redrive policy
FairCrash ==
  /\ WF_vars(Restart(CrashWorker))
  /\ WF_vars(Backoff(CrashWorker))
  /\ WF_vars(Receive(CrashWorker, CrashJob, TRUE))
  /\ WF_vars(VisibilityTimeout(CrashJob))
  /\ WF_vars(Redrive(CrashJob))

SpecCrash == Start(0, MaxFaults, 0) /\ [][NextCrash]_vars /\ FairCrash

\* the worker was killed while holding the message of a job whose DEPLOYED
\* write the store has applied
KilledAfterDeployed ==
  /\ wpc[CrashWorker] = "killed"
  /\ wmsg[CrashWorker] = CrashJob
  /\ store[CrashJob].status = "DEPLOYED"

\* a kill changes neither the queue nor the store; the message of a killed
\* worker is not deleted; a message is deleted only by a running worker
\* that is past the DEPLOYED write of that message, and, unless a store
\* call has failed, the job is DEPLOYED then
CrashSafe ==
  [][/\ (wpc[CrashWorker] # "killed" /\ wpc'[CrashWorker] = "killed")
        => (queue' = queue /\ store' = store /\ feed' = feed)
     /\ (wpc'[CrashWorker] = "killed" /\ wmsg'[CrashWorker] = CrashJob)
        => queue'[CrashJob].st \in {"inflight", "visible", "dlq"}
     /\ (queue[CrashJob].st # "deleted" /\ queue'[CrashJob].st = "deleted")
        => /\ wpc[CrashWorker] = "delete" /\ wmsg[CrashWorker] = CrashJob
           /\ wpc'[CrashWorker] = "poll"
           /\ faults' = MaxFaults => store'[CrashJob].status = "DEPLOYED"]_vars

Registered == regs' < regs

\* C14: a register that returns 200 sets the connectionId of the record of
\* its job to the registering connection, whatever it was before, and
\* changes no other attribute of that record and no other record.
C14_RegisterSetsOnlyConnectionId ==
  [][(Registered /\ reply'.statusCode = 200)
       => /\ reply'.id \in DOMAIN store
          /\ store' = [store EXCEPT
                         ![reply'.id].connectionId = reply'.conn]]_vars

\* C14 witness: c2 registered for j1 after c1 had; the record of j1 is
\* bound to c2 and still has its status and creation time
C14_Witness ==
  /\ reply = [id |-> "j1", conn |-> "c2", statusCode |-> 200]
  /\ \E i \in 1..Len(pushes) :
       /\ pushes[i].type = "SYSTEM" /\ pushes[i].conn = "c1"
       /\ pushes[i].id = "j1"
  /\ store["j1"].connectionId = "c2"
  /\ store["j1"].status = "PENDING" /\ store["j1"].createdAt


\* ------------------------------------- C15: one connection, several jobs
\* two submissions that reach the queue and clients that send any register
\* frame on any open connection
NextBinding ==
  \/ \E j \in Jobs : SubmitPut(j, TRUE)
  \/ \E j \in Jobs : SubmitCloneOk(j)
  \/ \E j \in Jobs : SubmitEnqueue(j, TRUE)
  \/ Gateway(Conns, Jobs)
  \/ Notifier

SpecBinding == Init /\ [][NextBinding]_vars

\* the jobs whose record is bound to connection c
BoundTo(c) == {j \in DOMAIN store : store[j].connectionId = c}

\* C15: no two job records have the same connectionId.
C15_OneJobPerConnection ==
  \A c \in Conns : Cardinality(BoundTo(c)) <= 1


\* ------------------------------------------ C16: the SYSTEM confirmation
\* C16: a register frame that is answered 200 has written the connectionId
\* and appends exactly one SYSTEM push, to the registering connection and
\* for the requested job; a frame without id, for a job that does not
\* exist or whose store call throws is not answered 200, and a frame that
\* is not answered 200 pushes nothing and writes nothing.
C16_ConfirmationFollowsWrite ==
  [][Registered
       => /\ (\/ reply'.id = NoId
              \/ reply'.id \notin DOMAIN store
              \/ faults' < faults) => reply'.statusCode # 200
          /\ IF reply'.statusCode = 200
             THEN /\ store'[reply'.id].connectionId = reply'.conn
                  /\ Len(pushes') = Len(pushes) + 1
                  /\ SubSeq(pushes', 1, Len(pushes)) = pushes
                  /\ pushes'[Len(pushes')].type = "SYSTEM"
                  /\ pushes'[Len(pushes')].conn = reply'.conn
                  /\ pushes'[Len(pushes')].id = reply'.id
             ELSE pushes' = pushes /\ store' = store]_vars

\* C16 witness: two register frames were handled; the first one failed,
\* the second one succeeded, and there is one SYSTEM push
C16_Witness ==
  /\ regs = MaxRegisters - 2
  /\ reply.statusCode = 200
  /\ Len(pushes) = 1
  /\ pushes[1].type = "SYSTEM" /\ pushes[1].conn = reply.conn
  /\ pushes[1].id = reply.id /\ pushes[1].outcome = "sent"


\* ------------------------------------- C17: the record precedes the message
\* C17: when /deploy enqueues the start message of a job, the record of
\* that job exists and is the PENDING item; while the message is in the
\* queue or in flight at a worker, a record with its id exists.
C17_RecordBeforeMessage ==
  [][\A j \in Jobs :
       /\ (queue[j].st = "absent" /\ queue'[j].st # "absent")
          => /\ ParsedId(queue'[j].body) \in DOMAIN store
             /\ store[ParsedId(queue'[j].body)] = PendingItem
       /\ queue'[j].st \in {"visible", "inflight"}
          => ParsedId(queue'[j].body) \in DOMAIN store']_vars

\* C17 witness: the start message of j1 is in flight at a worker that has
\* not written yet, and the record of j1 is the PENDING item
C17_Witness ==
  /\ queue["j1"].st = "inflight" /\ queue["j1"].rc = 1
  /\ wpc["w2"] = "writeInProgress" /\ wmsg["w2"] = "j1"
  /\ store["j1"] = PendingItem


\* ------------------------------------------------ C18: order of pushes
\* one submission that reaches the queue, its client registering once, one
\* worker, and a stream that may deliver a record more than once
NextOrder ==
  \/ SubmitPut("j1", TRUE)
  \/ SubmitCloneOk("j1")
  \/ SubmitEnqueue("j1", TRUE)
  \/ Consumer({"w1"})
  \/ QueueService
  \/ Connect("c1")
  \/ RegisterEarly("c1", "j1")
  \/ Notifier

SpecOrder == Start(1, MaxFaults, MaxDupFeed) /\ [][NextOrder]_vars

\* the STATUS_UPDATE pushes for job j in the log
PushesOf(log, j) ==
  SelectSeq(log, LAMBDA p : p.type = "STATUS_UPDATE" /\ p.id = j)

NonDecreasing(ps) ==
  \A i \in 1..Len(ps), k \in 1..Len(ps) :
    i < k => Rank(ps[i].status) <= Rank(ps[k].status)

\* C18: the change feed keeps the order of the writes (a write appends its
\* record, the notifier takes the oldest one) and every STATUS_UPDATE push
\* is made for the oldest record not yet handled, with its status; so once
\* every record is handled the last push of a job with a registered
\* connection carries the stored status, and for a message delivered once
\* no IN_PROGRESS push follows the push of the terminal status.
C18_PushesInWriteOrder ==
  [][/\ \/ feed' = feed
        \/ feed # <<>> /\ feed' = Tail(feed)
        \/ /\ Len(feed') = Len(feed) + 1
           /\ SubSeq(feed', 1, Len(feed)) = feed
     /\ (pushes' # pushes /\ pushes'[Len(pushes')].type = "STATUS_UPDATE")
        => /\ feed # <<>>
           /\ feed' \in {feed, Tail(feed)}
           /\ Len(pushes') = Len(pushes) + 1
           /\ SubSeq(pushes', 1, Len(pushes)) = pushes
           /\ pushes'[Len(pushes')].id = Head(feed).id
           /\ pushes'[Len(pushes')].status = Head(feed).status
           /\ pushes'[Len(pushes')].conn = Head(feed).connectionId
     /\ \A j \in Jobs :
          LET ps == PushesOf(pushes', j) IN
          /\ queue'[j].rc <= 1 => NonDecreasing(ps)
          /\ (/\ feed' = <<>>
              /\ j \in DOMAIN store' /\ store'[j].connectionId # NoConn)
             => /\ ps # <<>>
                /\ ps[Len(ps)].status = store'[j].status
                /\ ps[Len(ps)].conn = store'[j].connectionId]_vars

\* C18 witness: a record was delivered twice, and the connection of j1 got
\* the IN_PROGRESS push before the push of the terminal status
C18_Witness ==
  /\ dups < MaxDupFeed
  /\ feed = <<>>
  /\ \E i, k \in 1..Len(pushes) :
       /\ i < k
       /\ pushes[i].type = "STATUS_UPDATE" /\ pushes[i].id = "j1"
       /\ pushes[i].status = "IN_PROGRESS"
       /\ pushes[k].type = "STATUS_UPDATE" /\ pushes[k].id = "j1"
       /\ pushes[k].status \in Terminal


\* ------------------------------------------------ C19: what is pushed
\* the notifier handled the oldest record of the feed in this step
Notified == feed # <<>> /\ (feed' = Tail(feed) \/ dups' < dups)

\* a STATUS_UPDATE push was added to the log in this step
StatusPushed ==
  /\ Len(pushes') = Len(pushes) + 1
  /\ pushes'[Len(pushes')].type = "STATUS_UPDATE"

\* C19: an INSERT record handled by the notifier adds no push; a
\* STATUS_UPDATE push is only added by the notifier handling a MODIFY
\* record, and carries the id, the status and the error of the record's
\* NewImage (null when the image has no error) to its connectionId.
C19_PushOnlyForModify ==
  [][/\ (Notified /\ Head(feed).eventName = "INSERT") => pushes' = pushes
     /\ StatusPushed
        => /\ Notified
           /\ Head(feed).eventName = "MODIFY"
           /\ SubSeq(pushes', 1, Len(pushes)) = pushes
           /\ LET p == pushes'[Len(pushes')] IN
              /\ p.id = Head(feed).id
              /\ p.status = Head(feed).status
              /\ p.error = IF Head(feed).error = NoErr
                           THEN "null" ELSE Head(feed).error
              /\ p.conn = Head(feed).connectionId]_vars

\* C19 witness: every record has been handled, the INSERT of j1 among
\* them, and the log holds the push of j1's ERROR status with its error
C19_Witness ==
  /\ feed = <<>>
  /\ "j1" \in DOMAIN store /\ store["j1"].status = "ERROR"
  /\ pushes # <<>>
  /\ pushes[Len(pushes)].type = "STATUS_UPDATE"
  /\ pushes[Len(pushes)].status = "ERROR"
  /\ pushes[Len(pushes)].error = "npm install failed"
  /\ pushes[Len(pushes)].outcome = "sent"

\* -------------------------------------- C20: records without connection
\* C20: when the notifier handles a record whose NewImage has no
\* connectionId, the log of push attempts does not change, no call throws,
\* and the handler changes nothing else.
C20_NoBindingNoPush ==
  [][(Notified /\ Head(feed).connectionId = NoConn)
       => /\ pushes' = pushes
          /\ faults' = faults
          /\ UNCHANGED <<store, queue, open, reply>>]_vars

\* C20 witness: the ERROR item written by /deploy replaced a record that
\* had a connection; its MODIFY record was handled and nothing was pushed
\* after the confirmation of the registration
C20_Witness ==
  /\ feed = <<>>
  /\ "j1" \in DOMAIN store
  /\ store["j1"].status = "ERROR" /\ store["j1"].connectionId = NoConn
  /\ pushes # <<>>
  /\ \A i \in 1..Len(pushes) : pushes[i].status # "ERROR"
  /\ \E i \in 1..Len(pushes) : pushes[i].type = "SYSTEM"


\* ------------------------------------------------ C21: failed pushes
\* C21: a run of the notifier never changes the store; it makes at most
\* one push attempt for the record it handles, and when that attempt fails
\* (connection gone, or any other error) the record is still consumed as
\* if the push had succeeded: the failure is not retried and does not
\* reach the stream.
C21_FailedPushSwallowed ==
  [][Notified
       => /\ store' = store
          /\ \/ pushes' = pushes
             \/ /\ Len(pushes') = Len(pushes) + 1
                /\ SubSeq(pushes', 1, Len(pushes)) = pushes
                /\ pushes'[Len(pushes')].outcome \in {"gone", "error"}
                   => /\ dups' = dups => feed' = Tail(feed)
                      /\ UNCHANGED <<queue, open, reply>>]_vars

\* C21 witness: one push failed because the connection was gone, another
\* one for another reason; every record is handled and j1 is still bound
\* to the connection of the last failed push
C21_Witness ==
  /\ feed = <<>>
  /\ \E i \in 1..Len(pushes) : pushes[i].outcome = "error"
  /\ pushes # <<>>
  /\ pushes[Len(pushes)].outcome = "gone"
  /\ pushes[Len(pushes)].id = "j1"
  /\ "j1" \in DOMAIN store
  /\ store["j1"].connectionId = pushes[Len(pushes)].conn


\* ------------------------------------------------ C22: one batch
\* records of one invocation of the stream handler
MaxBatch == 2

\* what happens to one record of the batch: its push is sent, the
\* PostToConnectionCommand fails, or the code before the push throws
RecordOutcomes == {"sent", "error", "throws"}

BatchOutcomes == UNION {[1..n -> RecordOutcomes] : n \in 1..MaxBatch}

\* one iteration of the for loop: the try around the body catches a throw
\* of unmarshall or of a property access, and the loop goes on
HandleOne(log, rec, out) ==
  IF out = "throws" THEN log ELSE HandleRecord(log, rec, out = "sent")

\* the for loop without the try inside it: the first throw or failed push
\* ends the invocation
RECURSIVE HandleBatchAborts(_, _, _)
HandleBatchAborts(log, recs, outs) ==
  IF recs = <<>>
  THEN log
  ELSE IF Head(outs) = "throws"
  THEN log
  ELSE IF Head(outs) = "error" /\ HandleOne(log, Head(recs), "error") # log
  THEN HandleOne(log, Head(recs), "error")
  ELSE HandleBatchAborts(HandleOne(log, Head(recs), Head(outs)),
                         Tail(recs), Tail(outs))

\* for (const record of event.Records) { ... }
RECURSIVE HandleBatch(_, _, _)
HandleBatch(log, recs, outs) ==
  IF recs = <<>>
  THEN log
  ELSE HandleBatch(HandleOne(log, Head(recs), Head(outs)),
                   Tail(recs), Tail(outs))

\* the records of a batch for which something fails
Failures(outs) == {i \in 1..Len(outs) : outs[i] # "sent"}

\* MODIFY records carrying a connectionId
Pushable(rec) == rec.eventName = "MODIFY" /\ rec.connectionId # NoConn

\* one invocation of the handler with the oldest Len(outs) records; a
\* throw can only come from the body guarded by eventName === "MODIFY", a
\* failed push only from a record that is pushed
NotifyBatch(outs) ==
  /\ Len(outs) <= Len(feed)
  /\ LET recs == SubSeq(feed, 1, Len(outs)) IN
     /\ \A i \in 1..Len(outs) :
          /\ outs[i] = "throws" => recs[i].eventName = "MODIFY"
          /\ outs[i] = "error" => Pushable(recs[i])
     /\ Cardinality(Failures(outs)) <= faults
     /\ faults' = faults - Cardinality(Failures(outs))
     /\ pushes' = HandleBatch(pushes, recs, outs)
  /\ feed' = SubSeq(feed, Len(outs) + 1, Len(feed))
  /\ UNCHANGED <<store, subpc, suberr, queue, wpc, wmsg, werr, open, reply,
                 regs, dups>>

\* one submission, clients registering for its job, and the stream
\* handing the records over in batches
NextBatch ==
  \/ Submission({"j1"})
  \/ Gateway(Conns, {"j1"})
  \/ \E outs \in BatchOutcomes : NotifyBatch(outs)

SpecBatch == Start(MaxRegisters, MaxFaults, 0) /\ [][NextBatch]_vars


\* the records handled by the invocation of this step, those of them that
\* are to be pushed, and the push attempts the invocation added
BatchRecords == SubSeq(feed, 1, Len(feed) - Len(feed'))
BatchPushable == SelectSeq(BatchRecords, Pushable)
BatchPushes == SubSeq(pushes', Len(pushes) + 1, Len(pushes'))

\* records of the invocation whose handling threw before the push: the
\* failures of the step that are not failed push attempts
BatchThrows ==
  (faults - faults')
  - Cardinality({i \in 1..Len(BatchPushes) :
                   BatchPushes[i].outcome = "error"})

\* C22: an invocation of the notifier only appends to the log of push
\* attempts, and it attempts a push for every MODIFY record with a
\* connectionId of its batch except those whose own handling threw: when
\* no handling threw, the attempts are those of the records in order,
\* whatever the outcome of the earlier attempts.
C22_BatchGoesOn ==
  [][Len(feed') < Len(feed)
       => /\ SubSeq(pushes', 1, Len(pushes)) = pushes
          /\ Len(BatchPushes) >= Len(BatchPushable) - BatchThrows
          /\ BatchThrows = 0
             => /\ Len(BatchPushes) = Len(BatchPushable)
                /\ \A i \in 1..Len(BatchPushes) :
                     /\ BatchPushes[i].id = BatchPushable[i].id
                     /\ BatchPushes[i].status = BatchPushable[i].status
                     /\ BatchPushes[i].conn
                          = BatchPushable[i].connectionId]_vars

\* C22 witness: a push attempt that failed is followed in the log by an
\* attempt for the next record, and every record has been handled
C22_Witness ==
  /\ feed = <<>>
  /\ Len(pushes) >= 3
  /\ pushes[Len(pushes) - 1].type = "STATUS_UPDATE"
  /\ pushes[Len(pushes) - 1].outcome = "error"
  /\ pushes[Len(pushes)].type = "STATUS_UPDATE"
  /\ pushes[Len(pushes)].outcome = "sent"
  /\ pushes[Len(pushes)].conn # pushes[Len(pushes) - 1].conn


\* ------------------------------------- C23: IN_PROGRESS written again
\* one submission that reaches the queue, both workers, and a client that
\* registers for the job at any time
NextRewrite ==
  \/ SubmitPut("j1", TRUE)
  \/ SubmitCloneOk("j1")
  \/ SubmitEnqueue("j1", TRUE)
  \/ Consumer(Workers)
  \/ QueueService
  \/ Connect("c1")
  \/ Register("c1", "j1", TRUE)
  \/ Notify(FALSE, TRUE)

SpecRewrite == Start(1, MaxFaults, 0) /\ [][NextRewrite]_vars

\* worker w applies its IN_PROGRESS write in this step to a record whose
\* status is IN_PROGRESS already
RewritesInProgress(w) ==
  /\ wpc[w] = "writeInProgress" /\ wpc'[w] = "build"
  /\ faults' = faults
  /\ JobOf(w) \in DOMAIN store
  /\ store[JobOf(w)].status = "IN_PROGRESS"

\* C23: the IN_PROGRESS write of a redelivered message on a record that is
\* IN_PROGRESS leaves the status IN_PROGRESS, the error, the connectionId
\* and the creation time of the record and every other record as they
\* were, and writing it once more changes nothing.
C23_InProgressIdempotent ==
  [][\A w \in Workers :
       RewritesInProgress(w)
       => /\ DOMAIN store' = DOMAIN store
          /\ \A k \in DOMAIN store : k # JobOf(w) => store'[k] = store[k]
          /\ store'[JobOf(w)].status = "IN_PROGRESS"
          /\ store'[JobOf(w)].error = store[JobOf(w)].error
          /\ store'[JobOf(w)].connectionId = store[JobOf(w)].connectionId
          /\ store'[JobOf(w)].createdAt = store[JobOf(w)].createdAt
          /\ updateStatus(store', JobOf(w), "IN_PROGRESS", "") = store']_vars

\* C23 witness: the message of j1 was delivered to the second worker while
\* the first one was building; both have written IN_PROGRESS and the
\* record still has its connection
C23_Witness ==
  /\ wpc["w1"] = "build" /\ wmsg["w1"] = "j1"
  /\ wpc["w2"] = "build" /\ wmsg["w2"] = "j1"
  /\ queue["j1"].rc = 2
  /\ store["j1"].status = "IN_PROGRESS"
  /\ store["j1"].connectionId # NoConn
  /\ Len(feed) >= 2
  /\ feed[Len(feed)].status = "IN_PROGRESS"
  /\ feed[Len(feed) - 1].status = "IN_PROGRESS"


\* ------------------------------------------- C24: records are kept
\* every component at once: one submission with its failures, one worker,
\* the queue service, a client on one connection, the notifier
NextCore ==
  \/ Submission({"j1"})
  \/ Consumer({"w1"})
  \/ QueueService
  \/ Gateway({"c1"}, {"j1"})
  \/ Notifier

SpecCore == Start(1, MaxFaults, 0) /\ [][NextCore]_vars

\* C24: no step removes a job id from the store.
C24_RecordsNeverDeleted ==
  [][DOMAIN store \subseteq DOMAIN store']_vars

\* C24 witness: the submission of j1 failed after its record was created,
\* a client registered for it, and the record is there with the ERROR
\* status of the catch block
C24_Witness ==
  /\ subpc["j1"] = "failed"
  /\ reply = [id |-> "j1", conn |-> "c1", statusCode |-> 200]
  /\ DOMAIN store = {"j1"}
  /\ store["j1"].status = "ERROR" /\ store["j1"].connectionId = NoConn
  /\ feed = <<>>


\* --------------------------------------- C25: $connect and $disconnect
\* C25: a step that opens or closes a connection changes neither the
\* store nor the change feed nor the log of pushes; so a record keeps the
\* connectionId of a closed connection, and a push is delivered only to a
\* connection that is open: an attempt for a closed one ends as gone (or
\* fails otherwise).
C25_TransportEventsLeaveStore ==
  [][/\ open' # open => UNCHANGED <<store, feed, pushes>>
     /\ \A j \in DOMAIN store :
          (store[j].connectionId \in open
           /\ store[j].connectionId \notin open')
          => store'[j].connectionId = store[j].connectionId
     /\ Len(pushes') = Len(pushes) + 1
        => (pushes'[Len(pushes')].outcome = "sent"
            <=> (pushes'[Len(pushes')].conn \in open /\ faults' = faults))]_vars

\* C25 witness: the client of j1 disconnected, the worker then wrote a
\* status, and the push of that status to the stored connection was
\* discarded; j1 is still bound to the closed connection
C25_Witness ==
  /\ open = {}
  /\ "j1" \in DOMAIN store /\ store["j1"].connectionId = "c1"
  /\ store["j1"].status = "DEPLOYED"
  /\ feed = <<>>
  /\ pushes[Len(pushes)].type = "STATUS_UPDATE"
  /\ pushes[Len(pushes)].status = "DEPLOYED"
  /\ pushes[Len(pushes)].conn = "c1"
  /\ pushes[Len(pushes)].outcome = "gone"


\* ------------------------------------------ C26: one message at a time
\* the messages delivered by the queue in this step
Delivered == {m \in Msgs : queue'[m].rc > queue[m].rc}

\* the positions at which a worker is not inside an iteration
Idle == {"poll", "backoff"}

\* C26: a step delivers at most one message, once, and only while a
\* worker waits in its receive call holding no message; a worker starts an
\* iteration only from there, holds a message exactly while it is inside
\* an iteration, and goes through the iteration in order: IN_PROGRESS
\* write, build, then the DEPLOYED write and the delete or the ERROR write,
\* and back to the receive.
C26_OneMessagePerWorker ==
  [][/\ Cardinality(Delivered) <= 1
     /\ \A m \in Delivered :
          /\ queue'[m].rc = queue[m].rc + 1
          /\ \E w \in Workers : wpc[w] = "poll" /\ wmsg[w] = NoMsg
     /\ \A w \in Workers :
          /\ wmsg'[w] = NoMsg <=> wpc'[w] \in Idle
          /\ wpc'[w] # wpc[w]
             => CASE wpc'[w] = "writeInProgress" ->
                       wpc[w] = "poll" /\ Delivered = {wmsg'[w]}
                  [] wpc'[w] = "build" -> wpc[w] = "writeInProgress"
                  [] wpc'[w] \in {"writeDeployed", "writeError"} ->
                       wpc[w] = "build"
                  [] wpc'[w] = "delete" -> wpc[w] = "writeDeployed"
                  [] wpc'[w] = "poll" ->
                       wpc[w] \in {"writeError", "delete", "backoff"}
                  [] wpc'[w] = "backoff" -> wpc[w] \in {"poll", "delete"}
                  [] OTHER -> FALSE]_vars

\* C26 witness: both workers are building, each holding the one message it
\* received
C26_Witness ==
  /\ wpc["w1"] = "build" /\ wmsg["w1"] = "j1"
  /\ wpc["w2"] = "build" /\ wmsg["w2"] = "j1"
  /\ queue["j1"].st = "inflight" /\ queue["j1"].rc = 2
  /\ InQueue(BadMsg) /\ queue[BadMsg].rc = 1


\* ------------------------------------------ C27: a terminal status
\* one submission that reaches the queue and one worker that keeps
\* running, with store and queue faults
NextProgress ==
  \/ SubmitPut("j1", TRUE)
  \/ SubmitCloneOk("j1")
  \/ SubmitEnqueue("j1", TRUE)
  \/ Consumer({"w1"})
  \/ QueueService
  \/ Notify(FALSE, TRUE)

\* the worker always takes its next step (the Build Driver returns or
\* raises, the awaited calls return or throw), the queue makes undeleted
\* messages visible again and applies its redrive policy
FairProgress ==
  /\ WF_vars(Consumer({"w1"}))
  /\ WF_vars(QueueService)

SpecProgress == Start(0, MaxFaults, 0) /\ [][NextProgress]_vars /\ FairProgress

\* C27: once a worker has received the message of j1, the stored status of
\* j1 eventually is DEPLOYED or ERROR.
C27_ReceivedJobReachesTerminal ==
  (wmsg["w1"] = "j1")
    ~> ("j1" \in DOMAIN store /\ store["j1"].status \in Terminal)


\* ------------------------------------------ C28: who writes DEPLOYED
\* the status of j becomes DEPLOYED in this step
BecomesDeployed(j) ==
  /\ j \in DOMAIN store' /\ store'[j].status = "DEPLOYED"
  /\ j \in DOMAIN store => store[j].status # "DEPLOYED"

\* C28: the status of a job becomes DEPLOYED only by STEP 3 of a worker
\* processing a message of that job; a worker is at STEP 3 only when its
\* Build Driver call has returned without raising, it calls the driver
\* only after STEP 1 (the IN_PROGRESS write) has been issued, and after a
\* raise it goes from the ERROR write back to the receive.
C28_DeployedOnlyAfterBuild ==
  [][/\ \A j \in Jobs :
          BecomesDeployed(j)
          => \E w \in Workers :
               /\ wpc[w] = "writeDeployed" /\ wpc'[w] = "delete"
               /\ JobOf(w) = j
     /\ \A w \in Workers :
          /\ (wpc'[w] = "writeDeployed" /\ wpc[w] # "writeDeployed")
             => (wpc[w] = "build" /\ werr'[w] = werr[w])
          /\ (wpc'[w] = "build" /\ wpc[w] # "build")
             => wpc[w] = "writeInProgress"
          /\ (wpc[w] = "writeError" /\ wpc'[w] # "writeError")
             => (wpc'[w] = "poll" /\ ~BecomesDeployed(JobOf(w)))]_vars

\* C28 witness: the build of j1 raised on the first delivery and returned
\* on the second; DEPLOYED is written and the delete is next
C28_Witness ==
  /\ wpc["w1"] = "delete" /\ wmsg["w1"] = "j1"
  /\ queue["j1"].rc = 2
  /\ store["j1"].status = "DEPLOYED"
  /\ store["j1"].error = "npm install failed"
  /\ faults = MaxFaults


\* ------------------------------------- C29: a message without a record
ForeignJob == "j2"

\* a well-formed start message for an id that /deploy never created
\* arrives in the queue
InjectForeign(j) ==
  /\ subpc[j] = "idle"
  /\ queue[j].st = "absent"
  /\ queue' = [queue EXCEPT ![j] =
                 [body |-> JobBody(j), st |-> "visible", rc |-> 0,
                  handle |-> TRUE]]
  /\ UNCHANGED <<store, feed, subpc, suberr, wpc, wmsg, werr, open, pushes,
                 reply, regs, faults, dups>>

\* one submission that fails before it reaches the queue, a foreign
\* message, one worker, the notifier
NextForeign ==
  \/ \E ok \in BOOLEAN : SubmitPut("j1", ok)
  \/ \E e \in SubmitErrors : SubmitCloneFail("j1", e)
  \/ \E ok \in BOOLEAN : SubmitCatch("j1", ok)
  \/ InjectForeign(ForeignJob)
  \/ Consumer({"w1"})
  \/ QueueService
  \/ Notifier

SpecForeign == Start(0, MaxFaults, 0) /\ [][NextForeign]_vars

\* C29: a record is added to the store only by a step of the /deploy
\* handler of its job (the Put of the PENDING item, or the Put of the catch
\* block).
C29_OnlySubmissionCreates ==
  [][\A j \in Jobs :
       (j \notin DOMAIN store /\ j \in DOMAIN store')
       => (subpc[j] \in {"idle", "catch"} /\ subpc'[j] # subpc[j])]_vars


\* ------------------------------------ C30: the push after a register
\* the change record of a register of connection c for job id, on the
\* record as it is stored
RegisterRecord(c, id) ==
  [eventName |-> "MODIFY", id |-> id, status |-> store[id].status,
   error |-> store[id].error, connectionId |-> c]

\* the notifier answers a MODIFY record carrying a connectionId with one
\* STATUS_UPDATE push of the record's status to that connection
PushesRecord ==
  (Notified /\ Pushable(Head(feed)))
  => /\ Len(pushes') = Len(pushes) + 1
     /\ pushes'[Len(pushes')].type = "STATUS_UPDATE"
     /\ pushes'[Len(pushes')].conn = Head(feed).connectionId
     /\ pushes'[Len(pushes')].id = Head(feed).id
     /\ pushes'[Len(pushes')].status = Head(feed).status

\* C30 as stated: every register answered 200 writes a MODIFY change
\* record with the registering connection and the stored status, which
\* the notifier answers with one STATUS_UPDATE push to that connection.
C30_RegisterPushesStatus ==
  [][/\ (Registered /\ reply'.statusCode = 200)
        => feed' = Append(feed, RegisterRecord(reply'.conn, reply'.id))
     /\ PushesRecord]_vars

\* C30 amended: so it is unless the job is bound to the registering
\* connection already; that register changes no attribute, writes no
\* change record and is followed by no push.
C30_RegisterPushesStatusOnceBound ==
  [][/\ (Registered /\ reply'.statusCode = 200)
        => IF store[reply'.id].connectionId = reply'.conn
           THEN feed' = feed /\ store' = store
           ELSE feed' = Append(feed, RegisterRecord(reply'.conn, reply'.id))
     /\ PushesRecord]_vars

\* C30 witness: c1 registered for j1 after /deploy had stored ERROR; the
\* confirmation was followed by the push of ERROR and its error to c1
C30_Witness ==
  /\ feed = <<>>
  /\ "j1" \in DOMAIN store
  /\ store["j1"].status = "ERROR" /\ store["j1"].connectionId = "c1"
  /\ Len(pushes) = 2
  /\ pushes[1].type = "SYSTEM" /\ pushes[1].conn = "c1"
  /\ pushes[2].type = "STATUS_UPDATE" /\ pushes[2].conn = "c1"
  /\ pushes[2].status = "ERROR" /\ pushes[2].error = "clone failed"
  /\ pushes[2].outcome = "sent"


\* ------------------------------------------ C31: failed submissions
\* the /deploy request of j was answered 500 and j has a record
FailedWithRecord(j) == subpc[j] = "failed" /\ j \in DOMAIN store

\* C31: after a /deploy request that failed, the record of its job has
\* status ERROR and an error that is not empty, and no start message of
\* the job is or was in the queue, so no worker wrote IN_PROGRESS for it.
C31_FailedSubmissionIsError ==
  \A j \in Jobs :
    FailedWithRecord(j)
    => /\ store[j].status = "ERROR"
       /\ store[j].error \notin {NoErr, ""}
       /\ queue[j].st = "absent"


\* ------------------------------------- C32: no receipt handle
\* C32: the delivery of a message without receipt handle changes nothing
\* but the queue's own bookkeeping of that delivery: no record and no
\* change record is written, no worker starts an iteration (so no build
\* and no delete follow), no call fails, and the message stays undeleted
\* until its visibility timeout; the receiving worker is at its receive
\* again.
C32_NoHandleSkipped ==
  [][\A m \in Delivered :
       ~queue'[m].handle
       => /\ UNCHANGED <<store, feed, wpc, wmsg, werr, faults>>
          /\ queue'[m].st = "inflight"
          /\ \A k \in Msgs \ {m} : queue'[k] = queue[k]
          /\ \A w \in Workers : wmsg[w] # m => wmsg'[w] # m]_vars

\* C32 witness: the start message of j1 was delivered without receipt
\* handle; it is in flight, no worker holds it and j1 is still PENDING
C32_Witness ==
  /\ queue["j1"].st = "inflight" /\ queue["j1"].rc = 1
  /\ ~queue["j1"].handle
  /\ \A w \in Workers : wpc[w] = "poll" /\ wmsg[w] = NoMsg
  /\ store["j1"] = PendingItem
  /\ Len(feed) <= 1

====
